---- MODULE Spec2Model ----
(***************************************************************************)
(* db2sheet_exporter.py: export of a SQLite market-data snapshot to a      *)
(* Google Sheets worksheet.  main() runs                                   *)
(*   parse_date_range -> get_available_dates_in_range -> fetch_merged_data *)
(*   -> reshape_data -> export_to_gsheet                                   *)
(* sequentially; the model has one action per step of main.                *)
(*                                                                         *)
(* Encoding of Python values:                                              *)
(*  - a str that the code slices, splits or measures (the --date argument) *)
(*    is a sequence of one-character strings;                              *)
(*  - a target_date (an 8-character 'YYYYMMDD' text in the database) is    *)
(*    the number its digits spell; Python compares such texts              *)
(*    lexicographically, which for equal-length digit texts is the numeric *)
(*    order; DateText renders it where the code builds a label from it;    *)
(*  - every other cell of a DataFrame is a string, NULL standing for       *)
(*    None/NaN;                                                            *)
(*  - the Japanese labels of the source are written in romaji, because a   *)
(*    string of the module holds ASCII only.                               *)
(***************************************************************************)
EXTENDS Integers, Sequences, FiniteSets, TLC

VARIABLES
    pc,          \* the step of main that runs next, or the one that ended the run
    exit,        \* "running" | "return" | "exception"
    error,       \* the exception that ended the run, "" when none
    date_arg,    \* args.date
    range,       \* (start_date, end_date) of parse_date_range
    dates,       \* result of get_available_dates_in_range
    df,          \* result of fetch_merged_data (input of reshape_data)
    reshaped,    \* result of reshape_data
    db,          \* the SQLite file: consensus_url, nikkei_reports, moneyworld_reports
    cred,        \* state of CREDENTIALS_FILE: "missing" | "invalid" | "valid"
    service,     \* the spreadsheet service: does the spreadsheet exist, the worksheet
    ws0,         \* the worksheet as it was when the run started
    calls        \* the requests sent to the spreadsheet service, in order

vars == <<pc, exit, error, date_arg, range, dates, df, reshaped, db, cred, service, ws0, calls>>

\* ------------------------------------------------------------------ helpers

Range(s) == {s[i] : i \in 1..Len(s)}

Contains(s, x) == \E i \in 1..Len(s) : s[i] = x

IndexOf(s, x) == CHOOSE i \in 1..Len(s) : s[i] = x

RECURSIVE Filter(_, _)
\* [x for x in s if x in keep]
Filter(s, keep) ==
    IF s = <<>> THEN <<>>
    ELSE IF Head(s) \in keep THEN <<Head(s)>> \o Filter(Tail(s), keep)
    ELSE Filter(Tail(s), keep)

RECURSIVE Concat(_)
\* the concatenation of a sequence of sequences
Concat(ss) == IF ss = <<>> THEN <<>> ELSE Head(ss) \o Concat(Tail(ss))

\* ------------------------------------------------------------ str methods

Digits == <<"0", "1", "2", "3", "4", "5", "6", "7", "8", "9">>

IsDigit(c) == Contains(Digits, c)

DigitVal(c) == IndexOf(Digits, c) - 1

RECURSIVE lstrip(_)
lstrip(s) == IF s # <<>> /\ Head(s) = " " THEN lstrip(Tail(s)) ELSE s

RECURSIVE rstrip(_)
rstrip(s) ==
    IF s # <<>> /\ s[Len(s)] = " " THEN rstrip(SubSeq(s, 1, Len(s) - 1)) ELSE s

\* str.strip()
strip(s) == rstrip(lstrip(s))

RECURSIVE split(_, _)
\* str.split(sep) for a one-character separator: the list of segments
split(s, sep) ==
    IF ~Contains(s, sep) THEN <<s>>
    ELSE LET i == CHOOSE k \in 1..Len(s) :
                    s[k] = sep /\ \A j \in 1..(k - 1) : s[j] # sep
         IN <<SubSeq(s, 1, i - 1)>> \o split(SubSeq(s, i + 1, Len(s)), sep)

\* s[:n]
Prefix(s, n) == SubSeq(s, 1, IF n < Len(s) THEN n ELSE Len(s))

\* -------------------------------------------------------- datetime.strptime

NoDate == [year |-> 0, month |-> 0, day |-> 0]

IsLeap(y) == (y % 4 = 0 /\ y % 100 # 0) \/ y % 400 = 0

DaysInMonth(y, m) ==
    IF m = 2 THEN (IF IsLeap(y) THEN 28 + 1 ELSE 28)
    ELSE IF m \in {4, 6, 9, 11} THEN 30 ELSE 31

\* the number a sequence of digit characters spells
RECURSIVE Num(_)
Num(s) == IF s = <<>> THEN 0 ELSE Num(SubSeq(s, 1, Len(s) - 1)) * 10 + DigitVal(s[Len(s)])

\* %m of strptime: 1[0-2]|0[1-9]|[1-9]
MatchMonth(s) ==
    \/ Len(s) = 2 /\ s[1] = "1" /\ s[2] \in {"0", "1", "2"}
    \/ Len(s) = 2 /\ s[1] = "0" /\ IsDigit(s[2]) /\ s[2] # "0"
    \/ Len(s) = 1 /\ IsDigit(s[1]) /\ s[1] # "0"

\* %d of strptime: 3[01]|[12]\d|0[1-9]|[1-9]
MatchDay(s) ==
    \/ Len(s) = 2 /\ s[1] = "3" /\ s[2] \in {"0", "1"}
    \/ Len(s) = 2 /\ s[1] \in {"1", "2"} /\ IsDigit(s[2])
    \/ Len(s) = 2 /\ s[1] = "0" /\ IsDigit(s[2]) /\ s[2] # "0"
    \/ Len(s) = 1 /\ IsDigit(s[1]) /\ s[1] # "0"

\* datetime.strptime(s, "%Y%m%d").date(): the whole text must match
\* \d\d\d\d, %m, %d (a two-character month is tried first), and the numbers
\* must name a calendar date
strptime(s) ==
    LET n    == Len(s)
        rest == SubSeq(s, 5, n)
        \* the lengths of the month text the regular expression tries, in order
        tries == <<2, 1>>
        fits(k) == /\ k < Len(rest)
                   /\ MatchMonth(SubSeq(rest, 1, k))
                   /\ MatchDay(SubSeq(rest, k + 1, Len(rest)))
        digits == \A i \in 1..n : IsDigit(s[i])
    IN IF ~digits \/ n < 6 \/ ~(\E i \in 1..2 : fits(tries[i]))
       THEN [ok |-> FALSE, date |-> NoDate]
       ELSE LET k == IF fits(2) THEN 2 ELSE 1
                y == Num(SubSeq(s, 1, 4))
                m == Num(SubSeq(rest, 1, k))
                d == Num(SubSeq(rest, k + 1, Len(rest)))
            IN IF y >= 1 /\ d <= DaysInMonth(y, m)
               THEN [ok |-> TRUE, date |-> [year |-> y, month |-> m, day |-> d]]
               ELSE [ok |-> FALSE, date |-> NoDate]

\* date.strftime("%Y%m%d"), as the number the eight digits spell
strftime(d) == d.year * 10000 + d.month * 100 + d.day

\* --------------------------------------------------------- parse_date_range

NoRange == [status |-> "unset", start |-> NoDate, end |-> NoDate]

ValueError == [status |-> "ValueError", start |-> NoDate, end |-> NoDate]

\* variant: the end text is taken as written
end_str_of_no_year(start_str, end_str) == end_str

\* lines 72-73: a four-character end takes the year of the start
end_str_of(start_str, end_str) ==
    IF Len(end_str) = 4 THEN Prefix(start_str, 4) \o end_str ELSE end_str

\* lines 63-78
parse_date_range(date_str) ==
    LET s == strip(date_str)
    IN IF Contains(s, "-")
       THEN LET parts == split(s, "-")
            IN IF Len(parts) # 2 THEN ValueError  \* too many values to unpack
               ELSE LET start_str == strip(parts[1])
                        end_str   == end_str_of(start_str, strip(parts[2]))
                        start     == strptime(start_str)
                        end       == strptime(end_str)
                    IN IF start.ok /\ end.ok
                       THEN [status |-> "ok", start |-> start.date, end |-> end.date]
                       ELSE ValueError
       ELSE LET d == strptime(s)
            IN IF d.ok THEN [status |-> "ok", start |-> d.date, end |-> d.date]
               ELSE ValueError

\* ---------------------------------------------------------------- DataFrame
\* A DataFrame is [cols: the column names in order, rows: the rows in order],
\* a row being a function from the column names to the cells.

NULL == "<NA>"

EmptyFrame == [cols |-> <<>>, rows |-> <<>>]

\* DataFrame.empty
empty(d) == Len(d.rows) = 0 \/ Len(d.cols) = 0

\* df[cols_]
Select(d, cols_) ==
    [cols |-> cols_,
     rows |-> [i \in 1..Len(d.rows) |-> [c \in Range(cols_) |-> d.rows[i][c]]]]

\* df.rename(columns=map_): map_ is a function on some of the columns
Rename(d, map_) ==
    LET new(c)  == IF c \in DOMAIN map_ THEN map_[c] ELSE c
        old(n)  == CHOOSE c \in Range(d.cols) : new(c) = n
        newcols == [i \in 1..Len(d.cols) |-> new(d.cols[i])]
    IN [cols |-> newcols,
        rows |-> [i \in 1..Len(d.rows) |-> [n \in Range(newcols) |-> d.rows[i][old(n)]]]]

\* ------------------------------------------------------------- module data

\* lines 19-43; the labels are the source's Japanese labels in romaji
COLUMN_NAME_MAP ==
    [price |-> "kabuka", per |-> "yosou_PER", yield_rate |-> "yosou_haitou_rimawari",
     pbr |-> "PBR(jisseki)", roe_n |-> "ROE(yosou)",
     earning_yield |-> "kabushiki_ekimawari(yosou)",
     rating |-> "reetingu", sales |-> "uriagedaka_yosou", profit |-> "keijou_rieki_yosou",
     scale |-> "kibo", cheap |-> "wariyasudo", growth |-> "seichou",
     profitab |-> "shuuekisei", safety |-> "anzensei", risk |-> "risuku",
     return_rate |-> "ritaan", liquidity |-> "ryuudousei", trend |-> "torendo",
     forex |-> "kawase", technical |-> "tekunikaru"]

\* COLUMN_NAME_MAP.get(c, c)
COLUMN_NAME_MAP_get(c) == IF c \in DOMAIN COLUMN_NAME_MAP THEN COLUMN_NAME_MAP[c] ELSE c

need == {"target_date", "code", "name", "sector"}

url_cols == <<"ref_url_1", "ref_url_2", "ref_url_3">>

value_cols ==
    <<"price", "per", "yield_rate", "pbr", "roe_n", "earning_yield",
      "rating", "sales", "profit", "scale", "cheap", "growth", "profitab",
      "safety", "risk", "return_rate", "liquidity", "trend", "forex", "technical">>

keys == <<"code", "name", "sector">>

\* the display labels of line 215 and 216: koodo, kigyoumei, sekutaa, hiduke
key_labels == [code |-> "koodo", name |-> "kigyoumei", sector |-> "sekutaa"]

date_label == "hiduke"

\* str(td) of a target_date
DateText(td) == ToString(td)

\* f"{COLUMN_NAME_MAP.get(c, c)}_{td}"
col_name(c, td) == COLUMN_NAME_MAP_get(c) \o "_" \o DateText(td)

\* ------------------------------------------------------------- reshape_data

RECURSIVE insert_desc(_, _)
\* r put into rows (sorted by target_date, descending) after the rows of its date
insert_desc(rows, r) ==
    IF rows = <<>> THEN <<r>>
    ELSE IF Head(rows).target_date >= r.target_date
         THEN <<Head(rows)>> \o insert_desc(Tail(rows), r)
         ELSE <<r>> \o rows

RECURSIVE sort_values_desc(_)
\* df.sort_values("target_date", ascending=False), on the rows.  Rows of one
\* date keep their order; no operation below depends on the order of two rows
\* of one date unless they carry the same code.
sort_values_desc(rows) ==
    IF rows = <<>> THEN <<>>
    ELSE insert_desc(sort_values_desc(SubSeq(rows, 1, Len(rows) - 1)), rows[Len(rows)])

RECURSIVE drop_duplicates(_, _, _)
\* rows.drop_duplicates(subset=subset): the first row of each value of subset
drop_duplicates(rows, subset, seen) ==
    IF rows = <<>> THEN <<>>
    ELSE LET k == [c \in subset |-> Head(rows)[c]]
         IN IF k \in seen THEN drop_duplicates(Tail(rows), subset, seen)
            ELSE <<Head(rows)>> \o drop_duplicates(Tail(rows), subset, seen \cup {k})

\* variant: the rows in the order given
url_rows_unsorted(d) == d.rows

\* df.sort_values("target_date", ascending=False), line 163
url_rows_sorted(d) == sort_values_desc(d.rows)

\* lines 162-166, given that every column of url_cols is a column of d:
\* the frame indexed by code that holds the links of the latest row of each code
url_df(d) ==
    Select([cols |-> d.cols, rows |-> drop_duplicates(url_rows_sorted(d), {"code"}, {})],
           <<"code">> \o url_cols)

RECURSIVE sorted_desc(_)
\* sorted(S, reverse=True)
sorted_desc(S) ==
    IF S = {} THEN <<>>
    ELSE LET m == CHOOSE x \in S : \A y \in S : y <= x
         IN <<m>> \o sorted_desc(S \ {m})

RECURSIVE sorted_asc(_)
\* sorted(S)
sorted_asc(S) ==
    IF S = {} THEN <<>>
    ELSE LET m == CHOOSE x \in S : \A y \in S : x <= y
         IN <<m>> \o sorted_asc(S \ {m})

\* variant: reverse=False
all_dates_ascending(d) == sorted_asc({d.rows[i].target_date : i \in 1..Len(d.rows)})

\* line 176: sorted(df["target_date"].astype(str).unique(), reverse=True)
all_dates(d) == sorted_desc({d.rows[i].target_date : i \in 1..Len(d.rows)})

\* variant: only the columns that hold a value on the date
rename_map_nonnull(sub, td) ==
    LET has(c) == \E i \in 1..Len(sub.rows) : sub.rows[i][c] # NULL
    IN [c \in {x \in Range(value_cols) : x \in Range(sub.cols) /\ has(x)} |-> col_name(c, td)]

\* line 185: {c: f"..._{td}" for c in value_cols if c in sub.columns}
rename_map(sub, td) ==
    [c \in {x \in Range(value_cols) : x \in Range(sub.cols)} |-> col_name(c, td)]

\* lines 181-190: the frame of one date
record_of(d, td) ==
    LET OfDate(r) == r.target_date = td
        rows_     == [cols |-> d.cols, rows |-> SelectSeq(d.rows, OfDate)]
        dropped   == Range(<<"target_date">> \o url_cols)
        sub       == Select(rows_, Filter(rows_.cols, Range(rows_.cols) \ dropped))
        renamed   == Rename(sub, rename_map(sub, td))
        keep_cols == keys \o Filter(renamed.cols, Range(renamed.cols) \ Range(keys))
    IN Select(renamed, keep_cols)

\* line 193: df[keys].drop_duplicates()
base_keys(d) ==
    LET k == Select(d, keys)
    IN [cols |-> keys, rows |-> drop_duplicates(k.rows, Range(keys), {})]

\* a row of left and a row of right as one row over cols_; a row that is missing
\* (an unmatched side of an outer merge) gives NULL cells
Combine(cols_, left, l, hasl, right, r, hasr, on) ==
    [c \in Range(cols_) |->
        IF c \in on THEN (IF hasl THEN l[c] ELSE r[c])
        ELSE IF c \in Range(left.cols) THEN (IF hasl THEN l[c] ELSE NULL)
        ELSE (IF hasr THEN r[c] ELSE NULL)]

MergeCols(left, right, on) == left.cols \o Filter(right.cols, Range(right.cols) \ on)

\* the rows of a merge that come from the rows of left: one per matching row of
\* right, or one with NULL cells when none matches and keep_unmatched
LeftRows(left, right, on, keep_unmatched) ==
    LET cols_ == MergeCols(left, right, on)
        rowsfor(l) ==
            LET Match(r) == \A c \in on : r[c] = l[c]
                ms       == SelectSeq(right.rows, Match)
            IN IF ms = <<>>
               THEN (IF keep_unmatched
                     THEN <<Combine(cols_, left, l, TRUE, right, l, FALSE, on)>>
                     ELSE <<>>)
               ELSE [j \in 1..Len(ms) |-> Combine(cols_, left, l, TRUE, right, ms[j], TRUE, on)]
    IN Concat([i \in 1..Len(left.rows) |-> rowsfor(left.rows[i])])

\* the rows of right that no row of left matches, with NULL cells for left
RightOnlyRows(left, right, on) ==
    LET cols_ == MergeCols(left, right, on)
        Unmatched(r) == ~\E i \in 1..Len(left.rows) : \A c \in on : left.rows[i][c] = r[c]
        us == SelectSeq(right.rows, Unmatched)
    IN [j \in 1..Len(us) |-> Combine(cols_, left, us[j], FALSE, right, us[j], TRUE, on)]

\* variant: how="inner"
merge_inner(left, right) ==
    [cols |-> MergeCols(left, right, Range(keys)),
     rows |-> LeftRows(left, right, Range(keys), FALSE)]

\* pd.merge(left, right, on=keys, how="outer"), line 199.  NULL key cells match
\* each other, as pandas matches NaN keys.  pandas orders the rows of an outer
\* merge by key; the rows here stay in the order of left, then of right.
merge_outer(left, right) ==
    [cols |-> MergeCols(left, right, Range(keys)),
     rows |-> LeftRows(left, right, Range(keys), TRUE)
              \o RightOnlyRows(left, right, Range(keys))]

RECURSIVE merge_all(_, _)
\* lines 195-199: each frame of records merged in turn, without the columns
\* merged already has
merge_all(merged, records) ==
    IF records = <<>> THEN merged
    ELSE LET df_      == Head(records)
             dup_cols == {c \in Range(df_.cols) : c \in Range(merged.cols) /\ c \notin Range(keys)}
             df__     == Select(df_, Filter(df_.cols, Range(df_.cols) \ dup_cols))
         IN merge_all(merge_outer(merged, df__), Tail(records))

\* line 202: merged.set_index("code").join(url_df, how="left").reset_index()
join_url(merged, urls) ==
    [cols |-> <<"code">> \o Filter(merged.cols, Range(merged.cols) \ {"code"}) \o url_cols,
     rows |-> LeftRows(Select(merged, <<"code">> \o Filter(merged.cols, Range(merged.cols) \ {"code"})),
                       urls, {"code"}, TRUE)]

\* variant: the loops over value_cols and dates_ exchanged
ordered_by_metric(cols_, dates_) ==
    <<"code", "name", "sector">>
    \o Filter(Concat([j \in 1..Len(value_cols) |->
                        [i \in 1..Len(dates_) |-> col_name(value_cols[j], dates_[i])]]),
              Range(cols_))
    \o Filter(url_cols, Range(cols_))

\* lines 205-211: the columns of the output, in order
ordered(cols_, dates_) ==
    <<"code", "name", "sector">>
    \o Filter(Concat([i \in 1..Len(dates_) |->
                        [j \in 1..Len(value_cols) |-> col_name(value_cols[j], dates_[i])]]),
              Range(cols_))
    \o Filter(url_cols, Range(cols_))

RECURSIVE join_comma(_)
\* ",".join(dates_)
join_comma(dates_) ==
    IF dates_ = <<>> THEN ""
    ELSE IF Len(dates_) = 1 THEN DateText(dates_[1])
    ELSE DateText(dates_[1]) \o "," \o join_comma(Tail(dates_))

\* merged.insert(0, name_, value)
insert_first(d, name_, value) ==
    [cols |-> <<name_>> \o d.cols,
     rows |-> [i \in 1..Len(d.rows) |->
                  [c \in Range(d.cols) \cup {name_} |-> IF c = name_ THEN value ELSE d.rows[i][c]]]]

\* reshape_data, lines 145-217: [status, frame]
reshape_data(d) ==
    IF empty(d) THEN [status |-> "ok", frame |-> d]
    ELSE IF need \ Range(d.cols) # {} THEN [status |-> "ValueError", frame |-> EmptyFrame]
    ELSE IF Range(url_cols) \ Range(d.cols) # {} THEN [status |-> "KeyError", frame |-> EmptyFrame]
    ELSE LET dates_  == all_dates(d)
             records == [i \in 1..Len(dates_) |-> record_of(d, dates_[i])]
             merged  == join_url(merge_all(base_keys(d), records), url_df(d))
             out     == Rename(Select(merged, ordered(merged.cols, dates_)), key_labels)
         IN [status |-> "ok", frame |-> insert_first(out, date_label, join_comma(dates_))]

\* ------------------------------------------------------------- the database
\* db is [consensus_url, nikkei_reports, moneyworld_reports], each the rows of
\* the table in rowid order.

nikkei_cols == <<"sector", "price", "per", "yield_rate", "pbr", "roe", "earning_yield">>

moneyworld_cols ==
    <<"rating", "sales", "profit", "scale", "cheap", "growth", "profitab",
      "safety", "risk", "return_rate", "liquidity", "trend", "forex", "technical">>

\* the columns of the SELECT of fetch_merged_data, lines 105-131
fetch_cols ==
    <<"target_date", "code", "name", "sector">> \o value_cols \o url_cols

\* lines 82-93: the distinct target_date of consensus_url between the two dates
get_available_dates_in_range(start_date, end_date) ==
    sorted_asc({db.consensus_url[i].target_date : i \in
                   {j \in 1..Len(db.consensus_url) :
                       /\ strftime(start_date) <= db.consensus_url[j].target_date
                       /\ db.consensus_url[j].target_date <= strftime(end_date)}})

\* the rows of a LEFT JOIN ... ON target_date, code: the matching rows of
\* table, or one row of NULL cells
left_join(c, table, cols_) ==
    LET On(r) == r.target_date = c.target_date /\ r.code = c.code
        ms    == SelectSeq(table, On)
    IN IF ms = <<>> THEN <<[x \in Range(cols_) |-> NULL]>> ELSE ms

\* one row of the SELECT
fetched_row(c, n, m) ==
    [x \in Range(fetch_cols) |->
        IF x \in {"target_date", "code", "name"} THEN c[x]
        ELSE IF x = "ref_url_1" THEN c.nikkeiurl
        ELSE IF x = "ref_url_2" THEN c.quickurl
        ELSE IF x = "ref_url_3" THEN c.sbiurl
        ELSE IF x = "roe_n" THEN n.roe
        ELSE IF x \in Range(nikkei_cols) THEN n[x]
        ELSE m[x]]

\* fetch_merged_data, lines 97-141
fetch_merged_data(dates_) ==
    IF dates_ = <<>> THEN EmptyFrame
    ELSE LET InDates(c) == c.target_date \in Range(dates_)
             cs == SelectSeq(db.consensus_url, InDates)
             rowsfor(c) ==
                 LET ns == left_join(c, db.nikkei_reports, nikkei_cols)
                     ms == left_join(c, db.moneyworld_reports, moneyworld_cols)
                 IN Concat([i \in 1..Len(ns) |->
                               [j \in 1..Len(ms) |-> fetched_row(c, ns[i], ms[j])]])
         IN [cols |-> fetch_cols,
             rows |-> Concat([i \in 1..Len(cs) |-> rowsfor(cs[i])])]

\* ------------------------------------------------------ the spreadsheet service
\* service is [spreadsheet: a spreadsheet named SPREADSHEET_NAME exists,
\*             worksheet: [exists, rows, cols, content] of the tab SHEET_NAME].

NoWorksheet == [exists |-> FALSE, rows |-> 0, cols |-> 0, content |-> <<>>]

Max(a, b) == IF a >= b THEN a ELSE b

\* line 222
sanitize(val) == IF val = NULL THEN "" ELSE val

\* lines 225-226
header_of(d) == d.cols

rows_of(d) == [i \in 1..Len(d.rows) |-> [j \in 1..Len(d.cols) |-> sanitize(d.rows[i][d.cols[j]])]]

\* variant: the spreadsheet is opened without a look at the credential file
authorize_gspread_unchecked(cred_, service_) ==
    IF service_.spreadsheet
    THEN [error |-> "", calls |-> <<"open">>, spreadsheet |-> TRUE]
    ELSE [error |-> "SpreadsheetNotFound", calls |-> <<"open">>, spreadsheet |-> FALSE]

\* variant: a spreadsheet that does not exist is created
authorize_gspread_creating(cred_, service_) ==
    IF cred_ = "missing"
    THEN [error |-> "FileNotFoundError", calls |-> <<>>, spreadsheet |-> service_.spreadsheet]
    ELSE IF cred_ = "invalid"
    THEN [error |-> "ValueError", calls |-> <<>>, spreadsheet |-> service_.spreadsheet]
    ELSE IF service_.spreadsheet
    THEN [error |-> "", calls |-> <<"open">>, spreadsheet |-> TRUE]
    ELSE [error |-> "", calls |-> <<"open", "create">>, spreadsheet |-> TRUE]

\* authorize_gspread, lines 47-59: the exception it raises ("" when none),
\* the requests it sends and whether the spreadsheet exists afterwards.
\* Credentials.from_service_account_file reads the file and raises ValueError
\* on one that is no service-account key; gspread.authorize sends nothing;
\* gc.open asks the service for the spreadsheet named SPREADSHEET_NAME and
\* raises SpreadsheetNotFound when there is none.
authorize_gspread(cred_, service_) ==
    IF cred_ = "missing"
    THEN [error |-> "FileNotFoundError", calls |-> <<>>, spreadsheet |-> service_.spreadsheet]
    ELSE IF cred_ = "invalid"
    THEN [error |-> "ValueError", calls |-> <<>>, spreadsheet |-> service_.spreadsheet]
    ELSE IF service_.spreadsheet
    THEN [error |-> "", calls |-> <<"open">>, spreadsheet |-> TRUE]
    ELSE [error |-> "SpreadsheetNotFound", calls |-> <<"open">>, spreadsheet |-> FALSE]

\* ----------------------------------------------------------------------- main

NoResult == [status |-> "unset", frame |-> EmptyFrame]

\* lines 248-250
after_enumerate(dates_) == IF dates_ = <<>> THEN "return" ELSE "fetch"

\* variant: no test of df.empty
after_fetch_unchecked(d) == "reshape"

\* lines 254-256
after_fetch(d) == IF empty(d) THEN "return" ELSE "reshape"

\* line 244
ParseArgs ==
    /\ pc = "parse" /\ exit = "running"
    /\ LET r == parse_date_range(date_arg)
       IN /\ range' = r
          /\ IF r.status = "ok"
             THEN pc' = "enumerate" /\ UNCHANGED <<exit, error>>
             ELSE exit' = "exception" /\ error' = r.status /\ UNCHANGED pc
    /\ UNCHANGED <<date_arg, dates, df, reshaped, db, cred, service, ws0, calls>>

\* lines 247-250
Enumerate ==
    /\ pc = "enumerate" /\ exit = "running"
    /\ dates' = get_available_dates_in_range(range.start, range.end)
    /\ IF after_enumerate(dates') = "return"
       THEN exit' = "return" /\ UNCHANGED pc
       ELSE pc' = "fetch" /\ UNCHANGED exit
    /\ UNCHANGED <<error, date_arg, range, df, reshaped, db, cred, service, ws0, calls>>

\* lines 253-256
Fetch ==
    /\ pc = "fetch" /\ exit = "running"
    /\ df' = fetch_merged_data(dates)
    /\ IF after_fetch(df') = "return"
       THEN exit' = "return" /\ UNCHANGED pc
       ELSE pc' = "reshape" /\ UNCHANGED exit
    /\ UNCHANGED <<error, date_arg, range, dates, reshaped, db, cred, service, ws0, calls>>

\* line 259
Reshape ==
    /\ pc = "reshape" /\ exit = "running"
    /\ reshaped' = reshape_data(df)
    /\ IF reshaped'.status = "ok"
       THEN pc' = "authorize" /\ UNCHANGED <<exit, error>>
       ELSE exit' = "exception" /\ error' = reshaped'.status /\ UNCHANGED pc
    /\ UNCHANGED <<date_arg, range, dates, df, db, cred, service, ws0, calls>>

\* export_to_gsheet, line 227: sh = authorize_gspread()
Authorize ==
    /\ pc = "authorize" /\ exit = "running"
    /\ LET a == authorize_gspread(cred, service)
       IN /\ calls' = calls \o a.calls
          /\ service' = [service EXCEPT !.spreadsheet = a.spreadsheet]
          /\ IF a.error = ""
             THEN pc' = "worksheet" /\ UNCHANGED <<exit, error>>
             ELSE exit' = "exception" /\ error' = a.error /\ UNCHANGED pc
    /\ UNCHANGED <<date_arg, range, dates, df, reshaped, db, cred, ws0>>

\* export_to_gsheet, lines 228-231: the worksheet, added when there is none
Worksheet ==
    /\ pc = "worksheet" /\ exit = "running"
    /\ IF service.worksheet.exists
       THEN calls' = Append(calls, "worksheet") /\ UNCHANGED service
       ELSE /\ calls' = calls \o <<"worksheet", "add_worksheet">>
            /\ service' = [service EXCEPT !.worksheet =
                  [exists  |-> TRUE,
                   rows    |-> Max(1000, Len(rows_of(reshaped.frame)) + 10),
                   cols    |-> Max(50, Len(header_of(reshaped.frame)) + 5),
                   content |-> <<>>]]
    /\ pc' = "clear"
    /\ UNCHANGED <<exit, error, date_arg, range, dates, df, reshaped, db, cred, ws0>>

\* export_to_gsheet, line 232
Clear ==
    /\ pc = "clear" /\ exit = "running"
    /\ calls' = Append(calls, "clear")
    /\ service' = [service EXCEPT !.worksheet.content = <<>>]
    /\ pc' = "update"
    /\ UNCHANGED <<exit, error, date_arg, range, dates, df, reshaped, db, cred, ws0>>

\* export_to_gsheet, lines 233-234, and the end of main
Update ==
    /\ pc = "update" /\ exit = "running"
    /\ calls' = Append(calls, "update")
    /\ service' = [service EXCEPT !.worksheet.content =
                      <<header_of(reshaped.frame)>> \o rows_of(reshaped.frame)]
    /\ pc' = "end" /\ exit' = "return"
    /\ UNCHANGED <<error, date_arg, range, dates, df, reshaped, db, cred, ws0>>

\* Each query runs on a connection of its own (lines 83 and 100), outside any
\* transaction: another writer of the database file can delete the rows of
\* consensus_url between the two queries.
OtherWriterDeletes ==
    /\ pc = "fetch" /\ exit = "running"
    /\ db.consensus_url # <<>>
    /\ db' = [db EXCEPT !.consensus_url = <<>>]
    /\ UNCHANGED <<pc, exit, error, date_arg, range, dates, df, reshaped, cred, service, ws0, calls>>

\* ------------------------------------------------------------------- inputs

\* the texts of --date the runs draw from
T_20250801 == <<"2", "0", "2", "5", "0", "8", "0", "1">>
T_20250802 == <<"2", "0", "2", "5", "0", "8", "0", "2">>
T_20240229 == <<"2", "0", "2", "4", "0", "2", "2", "9">>
T_20250229 == <<"2", "0", "2", "5", "0", "2", "2", "9">>
T_2025801  == <<"2", "0", "2", "5", "8", "0", "1">>
T_2025080x == <<"2", "0", "2", "5", "0", "8", "0", "x">>
T_0831     == <<"0", "8", "3", "1">>
T_0802     == <<"0", "8", "0", "2">>
T_0229     == <<"0", "2", "2", "9">>
T_0230     == <<"0", "2", "3", "0">>
T_831      == <<"8", "3", "1">>

StartTexts == {T_20250801, T_20250802, T_20240229, T_20250229, T_2025801, T_2025080x}

EndTexts == StartTexts \cup {T_0831, T_0802, T_0229, T_0230, T_831}

Pads == {<<>>, <<" ">>}

\* "A", "A-B" and "A-B-C" with blanks around the texts
ParseInputs ==
    {l \o a \o t : l \in Pads, a \in StartTexts, t \in Pads}
    \cup {l \o a \o m1 \o <<"-">> \o m2 \o b \o t :
             l \in Pads, a \in StartTexts, m1 \in Pads, m2 \in Pads, b \in EndTexts, t \in Pads}
    \cup {a \o <<"-">> \o b \o <<"-">> \o b : a \in {T_20250801}, b \in {T_0802, T_0831}}

MainArgs ==
    {T_20250801,
     T_20250801 \o <<"-">> \o T_0802,
     T_20250802 \o <<" ", "-", " ">> \o T_20250801,
     T_20250229}

\* rows of the three tables
c_row(td, code, name) ==
    [target_date |-> td, code |-> code, name |-> name,
     nikkeiurl |-> "nikkei/" \o code \o "/" \o DateText(td),
     quickurl  |-> "quick/" \o code \o "/" \o DateText(td),
     sbiurl    |-> NULL]

n_row(td, code, price) ==
    [x \in {"target_date", "code"} \cup Range(nikkei_cols) |->
        IF x = "target_date" THEN td ELSE IF x = "code" THEN code
        ELSE IF x = "sector" THEN "Tech" ELSE IF x = "price" THEN price ELSE NULL]

m_row(td, code, rating) ==
    [x \in {"target_date", "code"} \cup Range(moneyworld_cols) |->
        IF x = "target_date" THEN td ELSE IF x = "code" THEN code
        ELSE IF x = "rating" THEN rating ELSE NULL]

\* the databases a run of main starts from
Databases ==
    [consensus_url :
        {<<>>,
         <<c_row(20250801, "1111", "Acme")>>,
         <<c_row(20250801, "1111", "Acme"), c_row(20250802, "1111", "Acme")>>,
         <<c_row(20250802, "1111", "Acme"), c_row(20250801, "1111", "Acme"),
           c_row(20250801, "2222", "Bolt")>>},
     nikkei_reports :
        {<<>>, <<n_row(20250801, "1111", "100"), n_row(20250802, "1111", "105")>>},
     moneyworld_reports :
        {<<>>, <<m_row(20250802, "1111", "A")>>}]

OldWorksheet ==
    [exists |-> TRUE, rows |-> 1000, cols |-> 50, content |-> <<<<"old header">>, <<"old row">>>>]

Services == [spreadsheet : BOOLEAN, worksheet : {NoWorksheet, OldWorksheet}]

\* the long tables reshape_data is applied to: at most MaxRows rows, one per
\* (target_date, code), over one of the column lists of Schemas
MaxRows == 3

\* the (target_date, code) a row can have, in the order the rows are given in
CellSeq ==
    <<<<20250801, "1111">>, <<20250802, "2222">>, <<20250731, "1111">>,
      <<20250802, "1111">>, <<20250801, "2222">>>>

NameOf == [x \in {"1111", "2222"} |-> IF x = "1111" THEN "Acme" ELSE "Bolt"]

CellOptions == [sector : {"Tech", NULL}, price : BOOLEAN, rating : BOOLEAN]

long_row(cell, o) ==
    LET td   == cell[1]
        code == cell[2]
        tag  == code \o "/" \o DateText(td)
    IN [target_date |-> td, code |-> code, name |-> NameOf[code], sector |-> o.sector,
        price  |-> IF o.price THEN "price/" \o tag ELSE NULL,
        rating |-> IF o.rating THEN "rating/" \o tag ELSE NULL,
        ref_url_1 |-> "url1/" \o tag, ref_url_2 |-> "url2/" \o tag, ref_url_3 |-> NULL,
        memo |-> "memo/" \o tag]

Schemas ==
    {<<"target_date", "code", "name", "sector", "price", "rating">> \o url_cols,
     <<"target_date", "code", "name", "sector", "price", "rating">> \o url_cols \o <<"memo">>,
     <<"target_date", "code", "name", "sector", "rating">> \o url_cols,
     <<"target_date", "code", "name", "sector">> \o url_cols,
     <<"target_date", "code", "name", "sector", "price", "rating">>,
     <<"target_date", "code", "name", "sector", "price", "ref_url_1">>,
     <<"target_date", "code", "name", "price", "rating">> \o url_cols}

\* the table over schema with the cells of S, filled as f says, in the order of
\* CellSeq
InputFrame(schema, S, f) ==
    LET ord == Filter([i \in 1..Len(CellSeq) |-> i], S)
    IN Select([cols |-> schema,
               rows |-> [i \in 1..Len(ord) |-> long_row(CellSeq[ord[i]], f[ord[i]])]],
              schema)

\* ----------------------------------------------------------- specifications

InitCommon ==
    /\ exit = "running" /\ error = ""
    /\ range = NoRange /\ dates = <<>>
    /\ reshaped = NoResult
    /\ calls = <<>>
    /\ ws0 = service.worksheet

\* a run of main
Init ==
    /\ pc = "parse"
    /\ date_arg \in MainArgs
    /\ db \in Databases
    /\ cred \in {"missing", "invalid", "valid"}
    /\ service \in Services
    /\ df = EmptyFrame
    /\ InitCommon

Next ==
    \/ ParseArgs
    \/ Enumerate
    \/ Fetch
    \/ Reshape
    \/ Authorize
    \/ Worksheet
    \/ Clear
    \/ Update
    \/ OtherWriterDeletes

Spec == Init /\ [][Next]_vars

\* parse_date_range applied to the texts of ParseInputs
InitParse ==
    /\ pc = "parse"
    /\ date_arg \in ParseInputs
    /\ db = [consensus_url |-> <<>>, nikkei_reports |-> <<>>, moneyworld_reports |-> <<>>]
    /\ cred = "valid"
    /\ service = [spreadsheet |-> TRUE, worksheet |-> NoWorksheet]
    /\ df = EmptyFrame
    /\ InitCommon

SpecParse == InitParse /\ [][ParseArgs]_vars

\* reshape_data applied to the long tables
InitReshape ==
    /\ pc = "reshape"
    /\ date_arg = <<>>
    /\ db = [consensus_url |-> <<>>, nikkei_reports |-> <<>>, moneyworld_reports |-> <<>>]
    /\ cred = "valid"
    /\ service = [spreadsheet |-> TRUE, worksheet |-> NoWorksheet]
    /\ \E schema \in Schemas :
         \E S \in {T \in SUBSET (1..Len(CellSeq)) : Cardinality(T) <= MaxRows} :
           \E f \in [S -> CellOptions] :
              df = InputFrame(schema, S, f)
    /\ InitCommon

SpecReshape == InitReshape /\ [][Reshape]_vars

\* ------------------------------------------------------------------- claims

\* reshape_data was applied to a non-empty table and returned
Reshaped == reshaped.status = "ok" /\ ~empty(df)

InputDates == {df.rows[i].target_date : i \in 1..Len(df.rows)}

Out == reshaped.frame

\* the requests of a complete export, in order
ExportCalls ==
    IF ws0.exists THEN <<"open", "worksheet", "clear", "update">>
    ELSE <<"open", "worksheet", "add_worksheet", "clear", "update">>

Untouched == calls = <<>> /\ service.worksheet = ws0

\* C1: main contacts the spreadsheet service only after the date enumeration
\* returned a non-empty list and the fetch returned a non-empty table; a run
\* that ends at the enumeration or at the fetch ends by a normal return, on an
\* empty list or an empty table, with no request sent and the worksheet as it was.
C1_ExportOnlyWithData ==
    /\ (calls # <<>> \/ service.worksheet # ws0) => (dates # <<>> /\ ~empty(df))
    /\ pc \notin {"parse", "enumerate"} => dates # <<>>
    /\ pc \notin {"parse", "enumerate", "fetch"} => ~empty(df)
    /\ (pc = "enumerate" /\ exit # "running") => (exit = "return" /\ dates = <<>> /\ Untouched)
    /\ (pc = "fetch" /\ exit # "running") => (exit = "return" /\ empty(df) /\ Untouched)

\* a run over a database with rows, none of them in the range asked for, that
\* could have exported: it returned at the enumeration
C1_Witness ==
    /\ pc = "enumerate" /\ exit = "return" /\ dates = <<>>
    /\ db.consensus_url # <<>>
    /\ cred = "valid" /\ service.spreadsheet /\ ws0 = OldWorksheet

\* the texts of a list of dates, joined by commas
RECURSIVE C2_Joined(_)
C2_Joined(s) ==
    IF Len(s) = 1 THEN ToString(s[1]) ELSE ToString(s[1]) \o "," \o C2_Joined(Tail(s))

\* the dates of D listed in ascending (up) or descending order
C2_Listed(D, up) ==
    CHOOSE s \in [1..Cardinality(D) -> D] :
        \A i, j \in 1..Cardinality(D) : i < j => (IF up THEN s[i] < s[j] ELSE s[i] > s[j])

\* C2 as amended: the first column of the wide table is the date column, and
\* holds in every row the dates of the input joined by commas in descending order.
C2_DateColumnDescending ==
    Reshaped =>
        /\ Out.cols[1] = date_label
        /\ \A i \in 1..Len(Out.rows) :
              Out.rows[i][date_label] = C2_Joined(C2_Listed(InputDates, FALSE))

\* C2 as claimed: the dates are joined in ascending order.
C2_DateColumnAscending ==
    Reshaped =>
        /\ Out.cols[1] = date_label
        /\ \A i \in 1..Len(Out.rows) :
              Out.rows[i][date_label] = C2_Joined(C2_Listed(InputDates, TRUE))

C2_Witness ==
    /\ Reshaped /\ Len(Out.rows) >= 2
    /\ \A i \in 1..Len(Out.rows) : Out.rows[i][date_label] = "20250802,20250801"

\* the entity key of a row of the input, and of a row of the output
C3_InKey(r) == <<r.code, r.name, r.sector>>

C3_OutKey(r) == <<r[key_labels.code], r[key_labels.name], r[key_labels.sector]>>

\* C3: each entity key (code, name, sector) of the input is the key of exactly
\* one row of the wide table, and the wide table has no other row.
C3_OneRowPerKey ==
    Reshaped =>
        /\ \A i \in 1..Len(df.rows) :
              Cardinality({j \in 1..Len(Out.rows) :
                              C3_OutKey(Out.rows[j]) = C3_InKey(df.rows[i])}) = 1
        /\ \A j \in 1..Len(Out.rows) :
              \E i \in 1..Len(df.rows) : C3_OutKey(Out.rows[j]) = C3_InKey(df.rows[i])

\* one code under two keys (its sector differs between the dates), and a key
\* that has no row on the latest date
C3_Witness ==
    /\ Reshaped /\ Len(df.rows) = 3 /\ Len(Out.rows) = 3
    /\ \E i, j \in 1..Len(df.rows) :
          /\ df.rows[i].code = df.rows[j].code
          /\ df.rows[i].sector # df.rows[j].sector
    /\ \E i \in 1..Len(df.rows) :
          /\ df.rows[i].target_date = 20250801
          /\ \A j \in 1..Len(df.rows) :
                df.rows[j].target_date = 20250802 => C3_InKey(df.rows[j]) # C3_InKey(df.rows[i])

\* the row of the input with the greatest target_date among those of a code
C4_Latest(code) ==
    df.rows[CHOOSE i \in 1..Len(df.rows) :
               /\ df.rows[i].code = code
               /\ \A j \in 1..Len(df.rows) :
                     df.rows[j].code = code => df.rows[j].target_date <= df.rows[i].target_date]

\* C4: in every row of the wide table the three link columns hold the links of
\* the input row with the greatest target_date among the rows of the same code.
C4_LinksOfLatest ==
    Reshaped =>
        \A j \in 1..Len(Out.rows) : \A k \in 1..Len(url_cols) :
            Out.rows[j][url_cols[k]] = C4_Latest(Out.rows[j][key_labels.code])[url_cols[k]]

\* a code with a row on each date, the earlier one first in the input
C4_Witness ==
    /\ Reshaped
    /\ \E i, j \in 1..Len(df.rows) :
          /\ i < j
          /\ df.rows[i].code = "1111" /\ df.rows[j].code = "1111"
          /\ df.rows[i].target_date < df.rows[j].target_date
    /\ \E j \in 1..Len(Out.rows) :
          /\ Out.rows[j][key_labels.code] = "1111"
          /\ Out.rows[j].ref_url_1 = "url1/1111/20250802"

\* the metrics of value_cols that are columns of the input, in declared order
C5_Metrics == SelectSeq(value_cols, LAMBDA c : c \in Range(df.cols))

\* C5: the wide table has no two columns of one name; after the date column
\* come the three key columns (under their display labels), then one column per
\* date and metric of the input, dates descending and within a date the metrics
\* in the order of value_cols, then the three link columns, and nothing else.
C5_ColumnOrder ==
    Reshaped =>
        LET D == C2_Listed(InputDates, FALSE)
            M == C5_Metrics
            n == Len(D) * Len(M)
        IN /\ Len(Out.cols) = 4 + n + 3
           /\ \A i, j \in 1..Len(Out.cols) : i # j => Out.cols[i] # Out.cols[j]
           /\ SubSeq(Out.cols, 1, 4) = <<"hiduke", "koodo", "kigyoumei", "sekutaa">>
           /\ \A i \in 1..Len(D) : \A j \in 1..Len(M) :
                 Out.cols[4 + (i - 1) * Len(M) + j]
                    = COLUMN_NAME_MAP[M[j]] \o "_" \o ToString(D[i])
           /\ SubSeq(Out.cols, 4 + n + 1, 4 + n + 3) = <<"ref_url_1", "ref_url_2", "ref_url_3">>

C5_Witness ==
    /\ Reshaped
    /\ Out.cols = <<"hiduke", "koodo", "kigyoumei", "sekutaa",
                    "kabuka_20250802", "reetingu_20250802",
                    "kabuka_20250801", "reetingu_20250801",
                    "ref_url_1", "ref_url_2", "ref_url_3">>

\* the input has a value of metric m on date d
C6_HasValue(m, d) ==
    /\ m \in Range(df.cols)
    /\ \E i \in 1..Len(df.rows) : df.rows[i].target_date = d /\ df.rows[i][m] # NULL

C6_Column(m, d) == COLUMN_NAME_MAP[m] \o "_" \o ToString(d)

\* C6 as amended: the wide table has the column <label(m)>_<d> exactly when m is
\* a column of the input and d a date of the input, whether or not a row of d
\* carries a value of m.
C6_ColumnIffInputColumn ==
    Reshaped =>
        \A k \in 1..Len(value_cols) : \A c \in 1..Len(CellSeq) :
            LET m == value_cols[k]
                d == CellSeq[c][1]
            IN C6_Column(m, d) \in Range(Out.cols)
                  <=> (m \in Range(df.cols) /\ d \in InputDates)

\* C6 as claimed: a metric with no value on a date has no column for that date.
C6_NoColumnWithoutValue ==
    Reshaped =>
        \A k \in 1..Len(value_cols) : \A c \in 1..Len(CellSeq) :
            LET m == value_cols[k]
                d == CellSeq[c][1]
            IN ~C6_HasValue(m, d) => C6_Column(m, d) \notin Range(Out.cols)

\* price is a column of the input, no row of 20250801 has a price, and the wide
\* table has the price column of 20250801, all NULL
C6_Witness ==
    /\ Reshaped
    /\ "price" \in Range(df.cols) /\ 20250801 \in InputDates
    /\ ~C6_HasValue("price", 20250801)
    /\ "kabuka_20250801" \in Range(Out.cols)
    /\ \A j \in 1..Len(Out.rows) : Out.rows[j]["kabuka_20250801"] = NULL

\* the calendar dates of the texts of --date
C7_Date(y, m, d) == [year |-> y, month |-> m, day |-> d]

C7_Full == {<<T_20250801, C7_Date(2025, 8, 1)>>, <<T_20250802, C7_Date(2025, 8, 2)>>,
            <<T_20240229, C7_Date(2024, 2, 29)>>}

\* start text, four-character end text, the end date
C7_Short ==
    {<<T_20250801, T_0831, C7_Date(2025, 8, 31)>>, <<T_20250801, T_0802, C7_Date(2025, 8, 2)>>,
     <<T_20250802, T_0831, C7_Date(2025, 8, 31)>>, <<T_20250802, T_0802, C7_Date(2025, 8, 2)>>,
     <<T_20240229, T_0831, C7_Date(2024, 8, 31)>>, <<T_20240229, T_0802, C7_Date(2024, 8, 2)>>,
     <<T_20240229, T_0229, C7_Date(2024, 2, 29)>>}

C7_Range(a, b) ==
    {l \o a \o m1 \o <<"-">> \o m2 \o b \o t : l \in Pads, m1 \in Pads, m2 \in Pads, t \in Pads}

\* C7: parse_date_range gives (d, d) for a valid date text d alone, (A, B) for
\* "A-B" of two valid date texts, whatever their order, and (A, A[:4]+B) for
\* "A-B" with a four-character B that names a day of the year of A.
C7_ParseDateRange ==
    range.status # "unset" =>
        /\ \A a \in C7_Full :
              date_arg \in {l \o a[1] \o t : l \in Pads, t \in Pads}
                 => range = [status |-> "ok", start |-> a[2], end |-> a[2]]
        /\ \A a \in C7_Full : \A b \in C7_Full :
              date_arg \in C7_Range(a[1], b[1])
                 => range = [status |-> "ok", start |-> a[2], end |-> b[2]]
        /\ \A a \in C7_Full : \A b \in C7_Short :
              (a[1] = b[1] /\ date_arg \in C7_Range(a[1], b[2]))
                 => range = [status |-> "ok", start |-> a[2], end |-> b[3]]

\* "20240229-0831" was parsed: the end took the year of the start
C7_Witness ==
    /\ date_arg = T_20240229 \o <<"-">> \o T_0831
    /\ range = [status |-> "ok", start |-> C7_Date(2024, 2, 29), end |-> C7_Date(2024, 8, 31)]

\* C8 as amended: the export opens the spreadsheet and never creates it.  With
\* a valid credential file and no spreadsheet of the name, it ends with
\* SpreadsheetNotFound after the open request, the worksheet as it was; with
\* the spreadsheet, it looks the worksheet up (adding it when absent), clears
\* it and writes the header and the rows.
C8_OpensNeverCreates ==
    /\ \A i \in 1..Len(calls) : calls[i] # "create"
    /\ (pc = "authorize" /\ exit # "running" /\ cred = "valid") =>
          /\ exit = "exception" /\ error = "SpreadsheetNotFound"
          /\ ~service.spreadsheet
          /\ calls = <<"open">> /\ service.worksheet = ws0
    /\ pc \in {"worksheet", "clear", "update", "end"} =>
          /\ service.spreadsheet /\ cred = "valid"
          /\ Len(calls) <= Len(ExportCalls) /\ calls = SubSeq(ExportCalls, 1, Len(calls))
    /\ pc = "end" =>
          /\ calls = ExportCalls
          /\ service.worksheet.exists
          /\ service.worksheet.content = <<Out.cols>> \o rows_of(Out)

\* C8 as claimed: with a valid credential file the export does not end at the
\* opening of the spreadsheet; a spreadsheet that does not exist is created.
C8_CreatesSpreadsheet ==
    (cred = "valid" /\ pc = "authorize") => exit = "running"

C8_Witness ==
    /\ pc = "authorize" /\ exit = "exception" /\ error = "SpreadsheetNotFound"
    /\ cred = "valid" /\ ~service.spreadsheet /\ calls = <<"open">>

\* C9: with the credential file missing or invalid the export ends with an
\* error before any request to the spreadsheet service: nothing is sent and the
\* worksheet keeps its content.
C9_NoCallWithoutCredentials ==
    cred \in {"missing", "invalid"} =>
        /\ Untouched
        /\ pc \notin {"worksheet", "clear", "update", "end"}
        /\ (pc = "authorize" /\ exit # "running") =>
              /\ exit = "exception"
              /\ error = (IF cred = "missing" THEN "FileNotFoundError" ELSE "ValueError")

C9_Witness ==
    /\ pc = "authorize" /\ exit = "exception" /\ error = "FileNotFoundError"
    /\ cred = "missing" /\ service.spreadsheet
    /\ ws0 = OldWorksheet /\ service.worksheet = OldWorksheet

\* C10 as claimed: a non-empty input with the key columns and none of the link
\* columns is reshaped without an error, into the date column, the key columns
\* and the metric columns.
C10_NoLinkColumnsAccepted ==
    (/\ reshaped.status # "unset" /\ ~empty(df)
     /\ need \subseteq Range(df.cols)
     /\ Range(url_cols) \cap Range(df.cols) = {})
        => /\ reshaped.status = "ok"
           /\ Out.cols[1] = date_label
           /\ Range(url_cols) \cap Range(Out.cols) = {}

====
